---- MODULE Spec2Model ----
(***************************************************************************)
(* A model of src/app.py, the media-info browser: codec classification,    *)
(* get_video_info, the request handlers with their path check, the         *)
(* directory scanner, the recursive enumeration and the two bulk analyses. *)
(*                                                                         *)
(* Strings are sequences of ASCII code points, so that str.lower(),        *)
(* str.startswith(), pathlib's suffix and sorted() are computed and not    *)
(* assumed.  None is modelled by an option record [some, v].               *)
(***************************************************************************)
EXTENDS Integers, Sequences, FiniteSets, TLC

VARIABLES
    CODEC_CONFIG,   \* the module-level configuration (app.py:97, rebound at 515)
    configFile,     \* the content of CONFIG_FILE
    nUpdates,       \* update_config requests served so far
    updStatus,      \* the HTTP status of the last update_config response (0: none yet)
    fnCall,         \* the last call of a classification helper, with its arguments
    fnRes,          \* and what it returned
    probe,          \* get_video_info: what ffprobe returned for the file
    gviPc,          \* get_video_info: position ("idle", "streams", "done")
    gviI,           \* get_video_info: index of the next stream of the loop at 170
    video_info,     \* get_video_info: the dict under construction
    gviRet,         \* get_video_info: the returned value (None or the dict)
    cfgAtStart,     \* the value CODEC_CONFIG had when get_video_info was entered
    reqKind,        \* the handler serving the request: "none", "browse", "video_info"
    reqPath,        \* the path query parameter
    fullPath,       \* the path the handler checks and then uses
    pcReq,          \* the handler's position
    fsLog,          \* the filesystem and probe operations the handler has performed
    respStatus,     \* the HTTP status answered (0: none yet)
    fs,             \* the tree under MEDIA_ROOT: a set of nodes [path, kind, readable]
    fsCall,         \* the last call of a scanning function, with its arguments
    items,          \* what scan_directory returned
    enumerated,     \* what scan_media_files_recursive returned
    probeOf,        \* what ffprobe returns for each video file of the tree
    bulkMode,       \* the bulk request served: "none", "bulk", "progress"
    bulkPc,         \* its position: "idle", "scan", "loop", "probe", "done"
    bulkCap,        \* bulk_analysis: max_files as passed to the enumeration
    video_files,    \* the enumerated paths
    bIndex,         \* 1-based position in video_files of the file in turn
    stats,          \* the statistics dict
    events,         \* progress mode: the events yielded so far
    bulkStatus,     \* bulk_analysis: the HTTP status answered (0: none yet)
    probed,         \* the files get_video_info was called on, in order
    cancelRequested, \* an external cancellation signal was raised
    store,          \* the content of the configuration store at startup
    startup,        \* the process: "pending", "running", "crashed"
    new_config      \* update_config: the body of the last request served

configVars == <<CODEC_CONFIG, configFile, nUpdates, updStatus, new_config>>
fnVars == <<fnCall, fnRes>>
gviVars == <<probe, gviPc, gviI, video_info, gviRet, cfgAtStart>>
pathVars == <<reqKind, reqPath, fullPath, pcReq, fsLog, respStatus>>
fsVars == <<fs, fsCall, items, enumerated>>
loadVars == <<store, startup>>
bulkVars == <<probeOf, bulkMode, bulkPc, bulkCap, video_files, bIndex, stats, events,
              bulkStatus, probed, cancelRequested>>

(***************************************************************************)
(* Bounds of the model.                                                    *)
(***************************************************************************)
MaxStreams == 3     \* streams in one probe output
MaxCodecList == 2   \* entries of a configured codec list in the helper calls
MaxUpdates == 2     \* update_config requests in one behaviour
MaxSegs == 3        \* segments of a requested path (after the root, for video-info)
TreeDepth == 1      \* levels of ordinary subdirectories below the root of a tree
MaxCap == 4         \* the largest max_files tried
MaxBulkFiles == 3   \* video files in a library a bulk analysis runs on

(***************************************************************************)
(* Strings.                                                                *)
(***************************************************************************)
s_dts == <<100, 116, 115>>                     \* "dts"
s_DTS == <<68, 84, 83>>                        \* "DTS"
s_Dts == <<68, 116, 115>>                      \* "Dts"
s_dt == <<100, 116>>                           \* "dt"
s_dts_hd == <<100, 116, 115, 45, 104, 100>>    \* "dts-hd"
s_DTS_HD == <<68, 84, 83, 45, 72, 68>>         \* "DTS-HD"
s_truehd == <<116, 114, 117, 101, 104, 100>>   \* "truehd"
s_flac == <<102, 108, 97, 99>>                 \* "flac"
s_pcm_s16le == <<112, 99, 109, 95, 115, 49, 54, 108, 101>>  \* "pcm_s16le"
s_pcm_s24le == <<112, 99, 109, 95, 115, 50, 52, 108, 101>>  \* "pcm_s24le"
s_aac == <<97, 97, 99>>                        \* "aac"
s_h264 == <<104, 50, 54, 52>>                  \* "h264"
s_hevc == <<104, 101, 118, 99>>                \* "hevc"
s_HEVC == <<72, 69, 86, 67>>                   \* "HEVC"
s_Unknown == <<85, 110, 107, 110, 111, 119, 110>>  \* "Unknown"

\* str.lower() and str.upper() on ASCII
lower(s) == [i \in 1..Len(s) |-> IF s[i] \in 65..90 THEN s[i] + 32 ELSE s[i]]
upper(s) == [i \in 1..Len(s) |-> IF s[i] \in 97..122 THEN s[i] - 32 ELSE s[i]]

\* the elements of a list, for Python's "x in list"
Elems(list) == {list[i] : i \in 1..Len(list)}

NoneStr == [some |-> FALSE, v |-> <<>>]
Some(x) == [some |-> TRUE, v |-> x]

(***************************************************************************)
(* The codec configuration: {"problematic_codecs": {"audio": [...],        *)
(* "video": [...]}}.  pc says whether the "problematic_codecs" key is      *)
(* there; a subkey is a list or is absent.                                 *)
(***************************************************************************)
AbsentKey == [kind |-> "absent", items |-> <<>>]
ListKey(l) == [kind |-> "list", items |-> l]
MkConfig(audio, video) == [pc |-> "dict", audio |-> audio, video |-> video]

default_config ==
    MkConfig(ListKey(<<s_dts, s_dts_hd, s_truehd, s_flac, s_pcm_s16le, s_pcm_s24le>>),
             ListKey(<<>>))

\* config.get("problematic_codecs", {}).get(key, [])
ProblematicList(config, key) ==
    IF config.pc # "dict" THEN <<>>
    ELSE LET f == IF key = "audio" THEN config.audio ELSE config.video
         IN  IF f.kind = "list" THEN f.items ELSE <<>>

\* a plausible slip: substring matching instead of equality
IsInfix(a, b) ==
    \E k \in 0..(Len(b) - Len(a)) : \A i \in 1..Len(a) : b[k + i] = a[i]
is_audio_problematic_substring(audio_codec, config) ==
    \E c \in Elems(ProblematicList(config, "audio")) :
        IsInfix(lower(c), lower(audio_codec))
is_audio_problematic(audio_codec, config) ==
    lower(audio_codec) \in {lower(c) : c \in Elems(ProblematicList(config, "audio"))}

is_video_problematic(video_codec, config) ==
    lower(video_codec) \in {lower(c) : c \in Elems(ProblematicList(config, "video"))}

(***************************************************************************)
(* The helper calls on their own: any codec name against any configured    *)
(* list.                                                                   *)
(***************************************************************************)
CodecNames == {s_dts, s_DTS, s_Dts, s_dt, s_dts_hd, s_DTS_HD, s_aac, s_hevc, s_HEVC, <<>>}

RECURSIVE SeqsUpTo(_, _)
SeqsUpTo(S, n) ==
    IF n = 0 THEN {<<>>}
    ELSE LET shorter == SeqsUpTo(S, n - 1)
         IN  shorter \cup {Append(s, x) : s \in shorter, x \in S}

CodecLists == SeqsUpTo(CodecNames \ {<<>>}, MaxCodecList)
OtherLists == {<<>>, <<s_DTS>>, <<s_dts_hd, s_HEVC>>}

HelperConfigs ==
    {MkConfig(ListKey(l), ListKey(o)) : l \in CodecLists, o \in OtherLists}
    \cup {MkConfig(ListKey(o), ListKey(l)) : l \in CodecLists, o \in OtherLists}

NoCall == [fn |-> "none", codec |-> <<>>, config |-> default_config]

\* the arguments are chosen, the helper has not run yet
FnArgs ==
    /\ \E codec \in CodecNames, config \in HelperConfigs :
            fnCall = [fn |-> "none", codec |-> codec, config |-> config]
    /\ fnRes = FALSE

CallIsAudioProblematic ==
    /\ fnCall.fn = "none"
    /\ fnCall' = [fnCall EXCEPT !.fn = "is_audio_problematic"]
    /\ fnRes' = is_audio_problematic(fnCall.codec, fnCall.config)

CallIsVideoProblematic ==
    /\ fnCall.fn = "none"
    /\ fnCall' = [fnCall EXCEPT !.fn = "is_video_problematic"]
    /\ fnRes' = is_video_problematic(fnCall.codec, fnCall.config)

(***************************************************************************)
(* The configuration store and update_config.                              *)
(***************************************************************************)
NoFile == [exists |-> FALSE, cfg |-> default_config]
FileWith(cfg) == [exists |-> TRUE, cfg |-> cfg]

cfgA == MkConfig(ListKey(<<s_DTS>>), ListKey(<<>>))
cfgB == MkConfig(ListKey(<<s_dts_hd>>), ListKey(<<s_HEVC>>))
cfgC == MkConfig(AbsentKey, ListKey(<<s_h264>>))

\* load_codec_config on a store that is missing or holds a well-formed configuration
load_codec_config(file) ==
    IF file.exists
    THEN LET c0 == file.cfg
             c1 == IF c0.pc = "absent"
                   THEN [c0 EXCEPT !.pc = "dict", !.audio = default_config.audio,
                                   !.video = default_config.video]
                   ELSE c0
             c2 == IF c1.audio.kind = "absent"
                   THEN [c1 EXCEPT !.audio = default_config.audio] ELSE c1
         IN  IF c2.video.kind = "absent"
             THEN [c2 EXCEPT !.video = default_config.video] ELSE c2
    ELSE default_config

\* the store after the load at startup: a missing file is created with the defaults
\* when the save succeeds
FileAfterLoad(file, saveOk) ==
    IF ~file.exists /\ saveOk THEN FileWith(default_config) ELSE file

\* the JSON bodies posted to /api/config
OtherKey == [kind |-> "other", items |-> <<>>]
UpdateRequests ==
    {[isDict |-> TRUE, cfg |-> c] : c \in {cfgA, cfgB, cfgC}}
    \cup {[isDict |-> FALSE, cfg |-> cfgA],
          [isDict |-> TRUE, cfg |-> [pc |-> "absent", audio |-> AbsentKey, video |-> AbsentKey]],
          [isDict |-> TRUE, cfg |-> [pc |-> "other", audio |-> AbsentKey, video |-> AbsentKey]],
          [isDict |-> TRUE, cfg |-> MkConfig(OtherKey, ListKey(<<>>))],
          [isDict |-> TRUE, cfg |-> MkConfig(ListKey(<<s_DTS>>), OtherKey)]}

\* the validation of update_config: the status it answers before saving, 0 when
\* the request passes
ValidationStatus(req) ==
    IF ~req.isDict THEN 400
    ELSE IF req.cfg.pc = "absent" THEN 400
    ELSE IF req.cfg.pc = "other" THEN 400      \* problematic.get raises, caught at 520
    ELSE IF req.cfg.audio.kind = "other" THEN 400
    ELSE IF req.cfg.video.kind = "other" THEN 400
    ELSE 0

\* a plausible slip: the global assigned before the save is known to have succeeded
update_config_assign_first(req, saveOk) ==
    /\ nUpdates < MaxUpdates
    /\ nUpdates' = nUpdates + 1
    /\ new_config' = req
    /\ IF ValidationStatus(req) # 0
       THEN /\ updStatus' = ValidationStatus(req)
            /\ UNCHANGED <<CODEC_CONFIG, configFile>>
       ELSE /\ CODEC_CONFIG' = req.cfg
            /\ configFile' = IF saveOk THEN FileWith(req.cfg) ELSE configFile
            /\ updStatus' = IF saveOk THEN 200 ELSE 500

update_config(req, saveOk) ==
    /\ nUpdates < MaxUpdates
    /\ nUpdates' = nUpdates + 1
    /\ new_config' = req
    /\ IF ValidationStatus(req) # 0
       THEN /\ updStatus' = ValidationStatus(req)
            /\ UNCHANGED <<CODEC_CONFIG, configFile>>
       ELSE IF saveOk
       THEN /\ configFile' = FileWith(req.cfg)
            /\ CODEC_CONFIG' = req.cfg
            /\ updStatus' = 200
       ELSE /\ updStatus' = 500
            /\ UNCHANGED <<CODEC_CONFIG, configFile>>

UpdateConfig == \E req \in UpdateRequests, saveOk \in BOOLEAN : update_config(req, saveOk)

\* the requests served while a get_video_info call is running
ConcurrentRequests ==
    {r \in UpdateRequests : r.cfg \in {cfgA, cfgB}}
ConcurrentUpdateConfig ==
    \E req \in ConcurrentRequests, saveOk \in BOOLEAN : update_config(req, saveOk)

InitialFiles == {NoFile, FileWith(cfgC)}

\* no request served yet
NoRequest == [isDict |-> FALSE, cfg |-> default_config]

ConfigInit ==
    \E file \in InitialFiles, saveOk \in BOOLEAN :
        /\ CODEC_CONFIG = load_codec_config(file)
        /\ configFile = FileAfterLoad(file, saveOk)
        /\ nUpdates = 0
        /\ updStatus = 0
        /\ new_config = NoRequest

(***************************************************************************)
(* get_video_info.  A probe output is the ffprobe outcome and, when it     *)
(* parsed, the list of streams.  Of a stream the model keeps codec_type,   *)
(* codec_name (named: whether the key is there) and disposition.default.   *)
(***************************************************************************)
AudioStream(name, d) ==
    [codec_type |-> "audio", named |-> TRUE, codec_name |-> name, default |-> d]
VideoStream(name) ==
    [codec_type |-> "video", named |-> TRUE, codec_name |-> name, default |-> 0]
UnnamedAudio == [codec_type |-> "audio", named |-> FALSE, codec_name |-> <<>>, default |-> 0]
SubtitleStream == [codec_type |-> "subtitle", named |-> TRUE, codec_name |-> <<>>, default |-> 0]

StreamKinds ==
    {AudioStream(n, d) : n \in {s_dts, s_DTS_HD}, d \in {0, 1}}
    \cup {VideoStream(n) : n \in {s_h264, s_hevc}}

\* of format.duration the model keeps whether the key is there and whether
\* float() accepts its value
FailedProbe(o) == [outcome |-> o, streams |-> <<>>, duration |-> "absent"]
FailedProbes == {FailedProbe(o) : o \in {"nonzero", "timeout", "badjson"}}
OkProbe(streams) == [outcome |-> "ok", streams |-> streams, duration |-> "numeric"]
ProbeWith(streams, duration) == [outcome |-> "ok", streams |-> streams, duration |-> duration]
\* float(format_info['duration']) raises ValueError (144)
FormatRaises(p) == p.duration = "malformed"
ProbeInputs ==
    FailedProbes
    \cup {OkProbe(s) : s \in SeqsUpTo(StreamKinds, MaxStreams)}
    \cup {OkProbe(<<UnnamedAudio, AudioStream(s_dts, 1)>>),
          OkProbe(<<SubtitleStream, AudioStream(s_dts, 0), VideoStream(s_hevc)>>)}
    \cup {ProbeWith(s, d) : s \in {<<>>, <<VideoStream(s_h264), AudioStream(s_dts, 1)>>},
                            d \in {"absent", "malformed"}}

NoTrack == [index |-> 0, codec |-> <<>>, default |-> 0, is_problematic |-> FALSE]
NoneTrack == [some |-> FALSE, v |-> NoTrack]
NoCompat ==
    [present |-> FALSE, primary_audio_problematic |-> FALSE,
     primary_audio_codec |-> NoneStr, video_problematic |-> FALSE,
     video_codec |-> NoneStr, needs_remux |-> FALSE,
     problematic_track_count |-> 0, total_audio_tracks |-> 0]
EmptyInfo ==
    [video |-> [codec |-> NoneStr, has_flag |-> FALSE, is_problematic |-> FALSE],
     audio_tracks |-> <<>>, compatibility |-> NoCompat]

NoneInfo == [some |-> FALSE, v |-> EmptyInfo]

\* stream.get('codec_name', dflt)
CodecName(stream, dflt) == IF stream.named THEN stream.codec_name ELSE dflt

\* one iteration of the loop over data['streams'] (170-280), reading `config`
\* where the code reads the global; i is the 0-based position enumerate gives
ProcessStream(info, i, stream, config) ==
    IF stream.codec_type = "video"
    THEN [info EXCEPT !.video =
            [codec |-> Some(upper(CodecName(stream, s_Unknown))),
             has_flag |-> TRUE,
             is_problematic |-> is_video_problematic(lower(CodecName(stream, <<>>)), config)]]
    ELSE IF stream.codec_type = "audio"
    THEN [info EXCEPT !.audio_tracks = Append(@,
            [index |-> i,
             codec |-> upper(CodecName(stream, s_Unknown)),
             default |-> stream.default,
             is_problematic |-> is_audio_problematic(lower(CodecName(stream, <<>>)), config)])]
    ELSE info

\* Python truthiness of disposition.default
Truthy(d) == d # 0

get_primary_audio_track_last_default(audio_tracks) ==
    IF audio_tracks = <<>> THEN NoneTrack
    ELSE IF \E k \in 1..Len(audio_tracks) : Truthy(audio_tracks[k].default)
    THEN Some(audio_tracks[CHOOSE k \in 1..Len(audio_tracks) :
                /\ Truthy(audio_tracks[k].default)
                /\ \A j \in (k + 1)..Len(audio_tracks) : ~Truthy(audio_tracks[j].default)])
    ELSE Some(audio_tracks[1])
RECURSIVE FirstDefault(_, _)
FirstDefault(audio_tracks, k) ==
    IF k > Len(audio_tracks) THEN NoneTrack
    ELSE IF Truthy(audio_tracks[k].default) THEN Some(audio_tracks[k])
    ELSE FirstDefault(audio_tracks, k + 1)
get_primary_audio_track(audio_tracks) ==
    IF audio_tracks = <<>> THEN NoneTrack
    ELSE IF FirstDefault(audio_tracks, 1).some THEN FirstDefault(audio_tracks, 1)
    ELSE Some(audio_tracks[1])

NeedsRemuxAudioOnly(audio_problematic, video_problematic) == audio_problematic
NeedsRemux(audio_problematic, video_problematic) ==
    audio_problematic \/ video_problematic

\* lines 321-334
Compatibility(info) ==
    LET primary_audio == get_primary_audio_track(info.audio_tracks)
        video_problematic == IF info.video.has_flag THEN info.video.is_problematic ELSE FALSE
        audio_problematic == IF primary_audio.some THEN primary_audio.v.is_problematic ELSE FALSE
    IN  [present |-> TRUE,
         primary_audio_problematic |-> audio_problematic,
         primary_audio_codec |-> IF primary_audio.some THEN Some(primary_audio.v.codec) ELSE NoneStr,
         video_problematic |-> video_problematic,
         video_codec |-> info.video.codec,
         needs_remux |-> NeedsRemux(audio_problematic, video_problematic),
         problematic_track_count |->
            Cardinality({k \in 1..Len(info.audio_tracks) : info.audio_tracks[k].is_problematic}),
         total_audio_tracks |-> Len(info.audio_tracks)]

\* the loop over the streams from position i on, every iteration against one `config`
RECURSIVE StreamsFrom(_, _, _, _)
StreamsFrom(info, streams, i, config) ==
    IF i > Len(streams) THEN info
    ELSE StreamsFrom(ProcessStream(info, i - 1, streams[i], config), streams, i + 1, config)

\* get_video_info run without interruption against `config`: None or the dict
InfoUnder(p, config) ==
    IF p.outcome # "ok" \/ FormatRaises(p) THEN NoneInfo
    ELSE LET info == StreamsFrom(EmptyInfo, p.streams, 1, config)
         IN  Some([info EXCEPT !.compatibility = Compatibility(info)])

GviIdle ==
    /\ probe = OkProbe(<<>>)
    /\ gviPc = "idle"
    /\ gviI = 1
    /\ video_info = EmptyInfo
    /\ gviRet = "pending"
    /\ cfgAtStart = default_config

\* the call is entered, ffprobe has answered and the format section is read
\* (101-166); an exception there is caught at 338 and None returned
GviStart ==
    /\ gviPc = "idle"
    /\ \E p \in ProbeInputs :
        /\ probe' = p
        /\ cfgAtStart' = CODEC_CONFIG
        /\ IF p.outcome = "ok" /\ ~FormatRaises(p)
           THEN /\ gviPc' = "streams"
                /\ gviRet' = "pending"
           ELSE /\ gviPc' = "done"
                /\ gviRet' = "None"
    /\ UNCHANGED <<gviI, video_info>>

\* one stream of the loop; the global is read here (220, 265)
GviStream ==
    /\ gviPc = "streams"
    /\ gviI <= Len(probe.streams)
    /\ video_info' = ProcessStream(video_info, gviI - 1, probe.streams[gviI], CODEC_CONFIG)
    /\ gviI' = gviI + 1
    /\ UNCHANGED <<probe, gviPc, gviRet, cfgAtStart>>

\* after the loop: the verdict and the return (321-336)
GviVerdict ==
    /\ gviPc = "streams"
    /\ gviI > Len(probe.streams)
    /\ video_info' = [video_info EXCEPT !.compatibility = Compatibility(video_info)]
    /\ gviPc' = "done"
    /\ gviRet' = "info"
    /\ UNCHANGED <<probe, gviI, cfgAtStart>>

FnIdle == fnCall = NoCall /\ fnRes = FALSE

(***************************************************************************)
(* The request handlers browse and video_info.  A path string is kept as   *)
(* whether it starts with "/" and its "/"-separated segments.              *)
(***************************************************************************)
MEDIA_ROOT == [abs |-> TRUE, segs |-> <<"mnt", "wd_2tb", "media">>]

Segments == {"..", ".", "movies", "a.mkv", "etc", "passwd"}

\* the directories and files of the machine, as resolved absolute paths
WorldDirs ==
    {<<>>, <<"etc">>, <<"mnt">>, <<"mnt", "wd_2tb">>, <<"mnt", "wd_2tb", "media">>,
     <<"mnt", "wd_2tb", "media", "movies">>}
WorldFiles ==
    {<<"etc", "passwd">>, <<"mnt", "wd_2tb", "media", "movies", "a.mkv">>,
     <<"mnt", "wd_2tb", "media", "a.mkv">>}

\* what the kernel resolves an absolute path to, segment by segment; Missing
\* stands for a path that does not resolve
Missing == <<"?">>
RECURSIVE Walk(_, _, _)
Walk(at, segs, i) ==
    IF at = Missing \/ i > Len(segs) THEN at
    ELSE IF at \notin WorldDirs THEN Missing
    ELSE IF segs[i] = "." THEN Walk(at, segs, i + 1)
    ELSE IF segs[i] = ".."
    THEN Walk(IF at = <<>> THEN at ELSE SubSeq(at, 1, Len(at) - 1), segs, i + 1)
    ELSE IF Append(at, segs[i]) \in WorldDirs \cup WorldFiles
    THEN Walk(Append(at, segs[i]), segs, i + 1)
    ELSE Missing
Resolve(path) == Walk(<<>>, path.segs, 1)

\* os.path.exists
exists(path) == Resolve(path) # Missing

\* os.path.join(MEDIA_ROOT, path.lstrip('/'))
JoinRoot(path) == [abs |-> TRUE, segs |-> MEDIA_ROOT.segs \o path.segs]

\* posixpath.commonpath of two paths of the same kind: the segments are split on
\* "/", empty and "." segments are dropped, ".." is kept, and the longest common
\* prefix is joined again
RECURSIVE DropDots(_)
DropDots(segs) ==
    IF segs = <<>> THEN <<>>
    ELSE IF Head(segs) = "." THEN DropDots(Tail(segs))
    ELSE <<Head(segs)>> \o DropDots(Tail(segs))
RECURSIVE CommonPrefix(_, _)
CommonPrefix(a, b) ==
    IF a = <<>> \/ b = <<>> \/ Head(a) # Head(b) THEN <<>>
    ELSE <<Head(a)>> \o CommonPrefix(Tail(a), Tail(b))
commonpath(p, q) == [abs |-> p.abs, segs |-> CommonPrefix(DropDots(p.segs), DropDots(q.segs))]

\* commonpath raises ValueError on a mix of absolute and relative paths
CommonpathRaises(p, q) == p.abs # q.abs

\* the "Security check" of both handlers (438, 473)
PassesSecurityCheck(path) == commonpath(MEDIA_ROOT, path) = MEDIA_ROOT

BrowsePaths == {[abs |-> a, segs |-> s] : a \in BOOLEAN, s \in SeqsUpTo(Segments, MaxSegs)}
VideoInfoPaths ==
    {[abs |-> TRUE, segs |-> pre \o s] :
        pre \in {<<>>, MEDIA_ROOT.segs}, s \in SeqsUpTo(Segments, MaxSegs)}
    \cup {[abs |-> FALSE, segs |-> s] : s \in SeqsUpTo(Segments, 1)}

PathIdle ==
    /\ reqKind = "none"
    /\ reqPath = [abs |-> FALSE, segs |-> <<>>]
    /\ fullPath = MEDIA_ROOT
    /\ pcReq = "idle"
    /\ fsLog = <<>>
    /\ respStatus = 0

Access(op, path) == [op |-> op, path |-> path]

\* browse: the request arrives and full_path is built (429-435)
BrowseRequest ==
    /\ pcReq = "idle"
    /\ \E path \in BrowsePaths :
        /\ reqPath' = path
        /\ fullPath' = IF path.abs \/ path.segs # <<>> THEN JoinRoot(path) ELSE MEDIA_ROOT
    /\ reqKind' = "browse"
    /\ pcReq' = "check"
    /\ UNCHANGED <<fsLog, respStatus>>

\* video_info: the request arrives; the path is used as given (467-470)
VideoInfoRequest ==
    /\ pcReq = "idle"
    /\ \E path \in VideoInfoPaths :
        /\ reqPath' = path
        /\ fullPath' = path
    /\ reqKind' = "video_info"
    /\ pcReq' = "check"
    /\ UNCHANGED <<fsLog, respStatus>>

\* the security check of either handler (438-439, 469-474)
SecurityCheck ==
    /\ pcReq = "check"
    /\ IF reqKind = "video_info" /\ ~reqPath.abs /\ reqPath.segs = <<>>
       THEN pcReq' = "done" /\ respStatus' = 400       \* 'No file path provided'
       ELSE IF CommonpathRaises(MEDIA_ROOT, fullPath)
       THEN pcReq' = "done" /\ respStatus' = 500       \* ValueError, not handled
       ELSE IF ~PassesSecurityCheck(fullPath)
       THEN pcReq' = "done" /\ respStatus' = 400       \* 'Invalid path'
       ELSE pcReq' = "exists" /\ respStatus' = 0
    /\ UNCHANGED <<reqKind, reqPath, fullPath, fsLog>>

\* os.path.exists(full_path) (441-442, 476-477)
ExistsCheck ==
    /\ pcReq = "exists"
    /\ fsLog' = Append(fsLog, Access("exists", fullPath))
    /\ IF exists(fullPath)
       THEN pcReq' = "use" /\ respStatus' = 0
       ELSE pcReq' = "done" /\ respStatus' = 404
    /\ UNCHANGED <<reqKind, reqPath, fullPath>>

\* browse lists the directory (444-462): scan_directory answers [] on any error
BrowseScan ==
    /\ pcReq = "use"
    /\ reqKind = "browse"
    /\ fsLog' = Append(fsLog, Access("listdir", fullPath))
    /\ pcReq' = "done"
    /\ respStatus' = 200
    /\ UNCHANGED <<reqKind, reqPath, fullPath>>

\* video_info probes the file (479-484): ffprobe runs, and the containing
\* directory is listed for external subtitles
VideoInfoProbe ==
    /\ pcReq = "use"
    /\ reqKind = "video_info"
    /\ fsLog' = fsLog \o <<Access("ffprobe", fullPath), Access("listdir", fullPath)>>
    /\ pcReq' = "done"
    /\ \E ok \in BOOLEAN : respStatus' = IF ok THEN 200 ELSE 500
    /\ UNCHANGED <<reqKind, reqPath, fullPath>>


(***************************************************************************)
(* The tree under MEDIA_ROOT and the scanning functions.  A node is         *)
(* [path, kind, readable], its path the names from the root down; the root *)
(* itself is the empty path.  An unreadable directory makes os.listdir     *)
(* raise PermissionError.  File sizes are not kept.                        *)
(***************************************************************************)
n_a_mkv == <<97, 46, 109, 107, 118>>                \* "a.mkv"
n_h_mkv == <<46, 104, 46, 109, 107, 118>>           \* ".h.mkv"
n_n_txt == <<110, 46, 116, 120, 116>>               \* "n.txt"
n_z_MP4 == <<122, 46, 77, 80, 52>>                  \* "z.MP4"
n_d == <<100>>                                      \* "d"
n_hd == <<46, 104, 100>>                            \* ".hd"
\* "System Volume Information"
n_SVI == <<83, 121, 115, 116, 101, 109, 32, 86, 111, 108, 117, 109, 101, 32,
           73, 110, 102, 111, 114, 109, 97, 116, 105, 111, 110>>

SUPPORTED_EXTENSIONS ==
    {<<46, 109, 112, 52>>,          \* .mp4
     <<46, 109, 107, 118>>,         \* .mkv
     <<46, 97, 118, 105>>,          \* .avi
     <<46, 109, 111, 118>>,         \* .mov
     <<46, 119, 109, 118>>,         \* .wmv
     <<46, 102, 108, 118>>,         \* .flv
     <<46, 119, 101, 98, 109>>,     \* .webm
     <<46, 109, 52, 118>>,          \* .m4v
     <<46, 109, 112, 103>>,         \* .mpg
     <<46, 109, 112, 101, 103>>,    \* .mpeg
     <<46, 51, 103, 112>>}          \* .3gp

\* Path(filename).suffix: from the last dot on, unless that dot is the first or
\* the last character
Suffix(name) ==
    LET dots == {i \in 1..Len(name) : name[i] = 46}
    IN  IF dots = {} THEN <<>>
        ELSE LET j == CHOOSE i \in dots : \A k \in dots : k <= i
             IN  IF 1 < j /\ j < Len(name) THEN SubSeq(name, j, Len(name)) ELSE <<>>

is_video_file(filename) == lower(Suffix(filename)) \in SUPPORTED_EXTENSIONS

\* item.startswith('.')
StartsWithDot(name) == Len(name) >= 1 /\ name[1] = 46

\* the order of Python's str comparison: by code point, a proper prefix first
RECURSIVE StrLess(_, _)
StrLess(a, b) ==
    IF b = <<>> THEN FALSE
    ELSE IF a = <<>> THEN TRUE
    ELSE IF Head(a) # Head(b) THEN Head(a) < Head(b)
    ELSE StrLess(Tail(a), Tail(b))

\* sorted(names)
RECURSIVE sorted(_)
sorted(names) ==
    IF names = {} THEN <<>>
    ELSE LET least == CHOOSE x \in names : \A y \in names \ {x} : StrLess(x, y)
         IN  <<least>> \o sorted(names \ {least})

FileNode(path) == [path |-> path, kind |-> "file", readable |-> TRUE]
DirNode(path, readable) == [path |-> path, kind |-> "dir", readable |-> readable]

isfile(tree, path) == \E n \in tree : n.path = path /\ n.kind = "file"
isdir(tree, path) == path = <<>> \/ \E n \in tree : n.path = path /\ n.kind = "dir"
\* os.listdir(path) raises: not a directory, or one that may not be read
ListdirRaises(tree, path) ==
    ~(path = <<>> \/ \E n \in tree : n.path = path /\ n.kind = "dir" /\ n.readable)
listdir(tree, path) ==
    {n.path[Len(n.path)] : n \in {m \in tree : /\ Len(m.path) = Len(path) + 1
                                               /\ SubSeq(m.path, 1, Len(path)) = path}}

DefaultMaxDepth == 10

\* count_videos_recursive; the sum does not depend on the order of os.listdir
RECURSIVE count_videos_recursive(_, _, _), CountLoop(_, _, _, _, _)
count_videos_recursive(tree, directory_path, max_depth) ==
    IF max_depth <= 0 THEN 0
    ELSE IF ListdirRaises(tree, directory_path) THEN 0
    ELSE CountLoop(tree, directory_path, sorted(listdir(tree, directory_path)), 1, max_depth)
CountLoop(tree, directory_path, names, i, max_depth) ==
    IF i > Len(names) THEN 0
    ELSE LET item == names[i]
             item_path == Append(directory_path, item)
             here == IF isfile(tree, item_path) /\ is_video_file(item) THEN 1
                     ELSE IF isdir(tree, item_path)
                     THEN IF ~StartsWithDot(item) /\ item # n_SVI
                          THEN count_videos_recursive(tree, item_path, max_depth - 1)
                          ELSE 0
                     ELSE 0
         IN  here + CountLoop(tree, directory_path, names, i + 1, max_depth)

\* scan_directory: the loop over sorted(os.listdir(path)) from position i on
RECURSIVE ScanItems(_, _, _, _)
ScanItems(tree, path, names, i) ==
    IF i > Len(names) THEN <<>>
    ELSE LET item == names[i]
             item_path == Append(path, item)
             rest == ScanItems(tree, path, names, i + 1)
         IN  IF isdir(tree, item_path)
             THEN IF StartsWithDot(item) \/ item = n_SVI THEN rest
                  ELSE <<[type |-> "folder", name |-> item,
                          video_count |-> count_videos_recursive(tree, item_path, DefaultMaxDepth)]>>
                       \o rest
             ELSE IF is_video_file(item)
             THEN <<[type |-> "file", name |-> item, video_count |-> 0]>> \o rest
             ELSE rest

\* scan_directory: any exception, the one of os.listdir included, gives []
scan_directory(tree, path) ==
    IF ListdirRaises(tree, path) THEN <<>>
    ELSE ScanItems(tree, path, sorted(listdir(tree, path)), 1)

\* max_files: None or an int
NoneInt == [none |-> TRUE, n |-> 0]
Int_(n) == [none |-> FALSE, n |-> n]
\* Python's truth value of max_files: None and 0 are false
IsTrue(max_files) == ~max_files.none /\ max_files.n # 0

\* scan_media_files_recursive
RECURSIVE scan_media_files_recursive(_, _, _, _), EnumLoop(_, _, _, _, _, _, _)
scan_media_files_recursive(tree, directory_path, max_files, max_depth) ==
    IF max_depth <= 0 THEN <<>>
    ELSE IF ListdirRaises(tree, directory_path) THEN <<>>
    ELSE EnumLoop(tree, directory_path, sorted(listdir(tree, directory_path)), 1, <<>>,
                  max_files, max_depth)
EnumLoop(tree, directory_path, names, i, found_files, max_files, max_depth) ==
    IF i > Len(names) THEN found_files
    ELSE IF IsTrue(max_files) /\ Len(found_files) >= max_files.n THEN found_files
    ELSE LET item == names[i]
             item_path == Append(directory_path, item)
             after ==
                IF isfile(tree, item_path) /\ is_video_file(item)
                THEN Append(found_files, item_path)
                ELSE IF isdir(tree, item_path) /\ ~StartsWithDot(item) /\ item # n_SVI
                THEN found_files \o
                     scan_media_files_recursive(tree, item_path,
                        IF IsTrue(max_files) THEN Int_(max_files.n - Len(found_files))
                        ELSE NoneInt,
                        max_depth - 1)
                ELSE found_files
         IN  EnumLoop(tree, directory_path, names, i + 1, after, max_files, max_depth)

(***************************************************************************)
(* The trees tried: any set of the four file names in a directory, an      *)
(* optional subdirectory "d" (unreadable, or holding a tree one level      *)
(* shallower), an optional hidden or system-volume directory holding a     *)
(* video; and chains of nested directories around the depth limit.         *)
(***************************************************************************)
FileNames == {n_h_mkv, n_a_mkv, n_n_txt, n_z_MP4}

Under(name, tree) == {[n EXCEPT !.path = <<name>> \o @] : n \in tree}

SpecialDirs ==
    {{},
     {DirNode(<<n_hd>>, TRUE), FileNode(<<n_hd, n_a_mkv>>)},
     {DirNode(<<n_SVI>>, TRUE), FileNode(<<n_SVI, n_a_mkv>>)}}

RECURSIVE Trees(_)
Trees(k) ==
    LET files == {{FileNode(<<f>>) : f \in F} : F \in SUBSET FileNames}
    IN  IF k = 0 THEN files
        ELSE LET subs == {{}, {DirNode(<<n_d>>, FALSE)}}
                         \cup {{DirNode(<<n_d>>, TRUE)} \cup Under(n_d, t) : t \in Trees(k - 1)}
             IN  {f \cup d \cup x : f \in files, d \in subs, x \in SpecialDirs}

\* "d/d/.../d" of the given depth with a.mkv in the innermost directory
RECURSIVE Chain(_)
Chain(depth) ==
    IF depth = 0 THEN {FileNode(<<n_a_mkv>>)}
    ELSE {DirNode(<<n_d>>, TRUE)} \cup Under(n_d, Chain(depth - 1))
ChainTrees == {Chain(d) : d \in (DefaultMaxDepth - 2)..(DefaultMaxDepth + 1)}

AllTrees == Trees(TreeDepth) \cup ChainTrees

Caps == {NoneInt} \cup {Int_(n) : n \in (0 - 1)..MaxCap}

NoFsCall == [fn |-> "none", path |-> <<>>, max_files |-> NoneInt]

FsIdle ==
    /\ fs = {}
    /\ fsCall = NoFsCall
    /\ items = <<>>
    /\ enumerated = <<>>

\* the directories of a tree at most two levels down, the root included
ShallowDirs(tree) == {<<>>} \cup {n.path : n \in {m \in tree : m.kind = "dir" /\ Len(m.path) <= 2}}

CallScanDirectory ==
    /\ fsCall.fn = "none"
    /\ \E path \in ShallowDirs(fs) :
        /\ fsCall' = [fn |-> "scan_directory", path |-> path, max_files |-> NoneInt]
        /\ items' = scan_directory(fs, path)
    /\ UNCHANGED <<fs, enumerated>>

CallScanMediaFiles ==
    /\ fsCall.fn = "none"
    /\ \E max_files \in Caps :
        /\ fsCall' = [fn |-> "scan_media_files_recursive", path |-> <<>>, max_files |-> max_files]
        /\ enumerated' = scan_media_files_recursive(fs, <<>>, max_files, DefaultMaxDepth)
    /\ UNCHANGED <<fs, items>>

(***************************************************************************)
(* The bulk analyses.  bulk_analysis answers one JSON document;            *)
(* generate_progress is a generator, suspended at each yield.  Both read   *)
(* the tree fs, call get_video_info on every enumerated file (probeOf      *)
(* gives ffprobe's answer) and fold the verdicts into stats.  The size     *)
(* string of a summary is not kept.                                        *)
(***************************************************************************)
SampleCap == 50

EmptyCount == [c \in {} |-> 0]
\* d[k] = d.get(k, 0) + 1
Increment(d, k) ==
    [c \in DOMAIN d \cup {k} |-> IF c = k THEN (IF k \in DOMAIN d THEN d[k] ELSE 0) + 1 ELSE d[c]]

NonePct == [some |-> FALSE, v |-> 0]

\* the statistics as initialised at 588-600 and 690-702
InitStats(total_files) ==
    [total_files |-> total_files, compatible_files |-> 0, problematic_files |-> 0,
     audio_issues |-> 0, video_issues |-> 0, both_issues |-> 0,
     codec_breakdown |-> [audio |-> EmptyCount, video |-> EmptyCount],
     problematic_files_list |-> <<>>, compatibility_percentage |-> NonePct]

\* os.path.basename
basename(file_path) == file_path[Len(file_path)]

\* a plausible slip: a file with both issues counted under both_issues only
CountVerdictExclusive(st, file_path, info) ==
    LET compatibility == info.compatibility
        has_audio_issue == compatibility.primary_audio_problematic
        has_video_issue == compatibility.video_problematic
    IN  IF compatibility.needs_remux
        THEN [st EXCEPT
                !.problematic_files = @ + 1,
                !.audio_issues = @ + (IF has_audio_issue /\ ~has_video_issue THEN 1 ELSE 0),
                !.video_issues = @ + (IF has_video_issue /\ ~has_audio_issue THEN 1 ELSE 0),
                !.both_issues = @ + (IF has_audio_issue /\ has_video_issue THEN 1 ELSE 0),
                !.problematic_files_list = Append(@,
                    [path |-> file_path, name |-> basename(file_path), issues |-> <<>>,
                     audio_codec |-> compatibility.primary_audio_codec,
                     video_codec |-> compatibility.video_codec])]
        ELSE [st EXCEPT !.compatible_files = @ + 1]

\* 612-643: the verdict counted
CountVerdict(st, file_path, info) ==
    LET compatibility == info.compatibility
        has_audio_issue == compatibility.primary_audio_problematic
        has_video_issue == compatibility.video_problematic
        issues == (IF has_audio_issue THEN <<compatibility.primary_audio_codec>> ELSE <<>>)
                  \o (IF has_video_issue THEN <<compatibility.video_codec>> ELSE <<>>)
    IN  IF compatibility.needs_remux
        THEN [st EXCEPT
                !.problematic_files = @ + 1,
                !.audio_issues = @ + (IF has_audio_issue THEN 1 ELSE 0),
                !.video_issues = @ + (IF has_video_issue THEN 1 ELSE 0),
                !.both_issues = @ + (IF has_audio_issue /\ has_video_issue THEN 1 ELSE 0),
                !.problematic_files_list = Append(@,
                    [path |-> file_path, name |-> basename(file_path), issues |-> issues,
                     audio_codec |-> compatibility.primary_audio_codec,
                     video_codec |-> compatibility.video_codec])]
        ELSE [st EXCEPT !.compatible_files = @ + 1]

\* 645-654: the codec usage counted
CountCodecs(st, info) ==
    LET primary_audio == get_primary_audio_track(info.audio_tracks)
        a == IF info.audio_tracks # <<>> /\ primary_audio.some
             THEN [st EXCEPT !.codec_breakdown.audio = Increment(@, lower(primary_audio.v.codec))]
             ELSE st
    IN  IF info.video.codec.some /\ info.video.codec.v # <<>>
        THEN [a EXCEPT !.codec_breakdown.video = Increment(@, lower(info.video.codec.v))]
        ELSE a

\* one file of the loop, get_video_info having returned `result` (605-658):
\* a file that gave None is skipped
AnalyzeFileCountingFailures(st, file_path, result) ==
    IF ~result.some THEN [st EXCEPT !.compatible_files = @ + 1]
    ELSE CountCodecs(CountVerdict(st, file_path, result.v), result.v)
AnalyzeFile(st, file_path, result) ==
    IF ~result.some \/ ~result.v.compatibility.present THEN st
    ELSE CountCodecs(CountVerdict(st, file_path, result.v), result.v)

\* round(x, 1) of the quotient num / den >= 0, in tenths: to the nearest tenth,
\* a tie going to the even digit
RoundTenths(num, den) ==
    LET q == (num * 10) \div den
        r == (num * 10) % den
    IN  IF 2 * r > den \/ (2 * r = den /\ q % 2 = 1) THEN q + 1 ELSE q

\* 660-664: the percentage, in tenths of a percent
WithPercentage(st) ==
    [st EXCEPT !.compatibility_percentage =
        IF st.total_files > 0 THEN Some(RoundTenths(st.compatible_files * 100, st.total_files))
        ELSE Some(0)]

\* the events of the progress stream
Event(status, total_files, current_file, current_filename, st) ==
    [status |-> status, total_files |-> total_files, current_file |-> current_file,
     current_filename |-> current_filename, stats |-> st]
StartingEvent == Event("starting", 0, 0, <<>>, InitStats(0))
ProgressEventOffByOne(total_files, index, filename) ==
    Event("progress", total_files, index - 1, filename, InitStats(0))
ProgressEvent(total_files, index, filename) ==
    Event("progress", total_files, index, filename, InitStats(0))
\* a plausible slip: the final event built from the statistics as initialised
CompleteEventUnfilled(st) == Event("complete", st.total_files, 0, <<>>, InitStats(st.total_files))
CompleteEvent(st) == Event("complete", st.total_files, 0, <<>>, st)
ErrorEvent == Event("error", 0, 0, <<>>, InitStats(0))

\* the libraries a bulk analysis is run on: readable trees of a.mkv and z.MP4 at
\* the root and in "d", with at most MaxBulkFiles video files
BulkTrees ==
    {t \in Trees(1) :
        /\ \A n \in t : /\ n.readable
                        /\ n.path[Len(n.path)] \in {n_a_mkv, n_z_MP4, n_d}
        /\ Len(scan_media_files_recursive(t, <<>>, NoneInt, DefaultMaxDepth)) <= MaxBulkFiles}

\* ffprobe's answers in a library: two failures, a compatible file, one with an audio
\* issue, one with a video issue, one with both (under cfgB)
BulkProbes ==
    {FailedProbe("nonzero"),
     FailedProbe("timeout"),
     OkProbe(<<VideoStream(s_h264), AudioStream(s_dts, 1)>>),
     OkProbe(<<VideoStream(s_h264), AudioStream(s_DTS_HD, 0)>>),
     OkProbe(<<VideoStream(s_hevc)>>),
     OkProbe(<<AudioStream(s_dts, 0), AudioStream(s_DTS_HD, 1), VideoStream(s_hevc)>>)}

VideoPaths(tree) == Elems(scan_media_files_recursive(tree, <<>>, NoneInt, DefaultMaxDepth))

BulkCaps == {NoneInt, Int_(0), Int_(2)}

BulkIdle ==
    /\ probeOf = EmptyCount
    /\ bulkMode = "none"
    /\ bulkPc = "idle"
    /\ bulkCap = NoneInt
    /\ video_files = <<>>
    /\ bIndex = 1
    /\ stats = InitStats(0)
    /\ events = <<>>
    /\ bulkStatus = 0
    /\ probed = <<>>
    /\ cancelRequested = FALSE

\* bulk_analysis up to the loop (576-600): the parameters are read, the files
\* enumerated and the statistics initialised
BulkRequest ==
    /\ bulkPc = "idle"
    /\ bulkMode' = "bulk"
    /\ \E max_files \in BulkCaps, sample_only \in BOOLEAN :
        LET cap == IF sample_only /\ ~IsTrue(max_files) THEN Int_(SampleCap) ELSE max_files
            found == scan_media_files_recursive(fs, <<>>, cap, DefaultMaxDepth)
        IN  /\ bulkCap' = cap
            /\ video_files' = found
            /\ stats' = InitStats(Len(found))
    /\ bulkPc' = "probe"
    /\ UNCHANGED <<probeOf, bIndex, events, bulkStatus, probed, cancelRequested>>

\* get_video_info reaches its handler at 338, whose print names the file
Logs(p) == p.outcome \in {"timeout", "badjson"} \/ (p.outcome = "ok" /\ FormatRaises(p))

\* one iteration of either loop after its yield: get_video_info and the counting
\* (605-658, 717-770).  The print at 339 raises when the file name cannot be
\* written to the standard output; the exception leaves get_video_info, the
\* print of the loop's handler (657, 769) raises on the same name, and the
\* request ends in the outer handler (668, 785).
BulkFile ==
    /\ bulkPc = "probe"
    /\ bIndex <= Len(video_files)
    /\ probed' = Append(probed, video_files[bIndex])
    /\ \E printRaises \in BOOLEAN :
        LET file_path == video_files[bIndex]
        IN  IF Logs(probeOf[file_path]) /\ printRaises
            THEN /\ bulkPc' = "done"
                 /\ IF bulkMode = "progress"
                    THEN events' = Append(events, ErrorEvent) /\ bulkStatus' = bulkStatus
                    ELSE events' = events /\ bulkStatus' = 500
                 /\ UNCHANGED <<stats, bIndex>>
            ELSE /\ stats' = AnalyzeFile(stats, file_path,
                                         InfoUnder(probeOf[file_path], CODEC_CONFIG))
                 /\ bIndex' = bIndex + 1
                 /\ bulkPc' = IF bulkMode = "progress" THEN "loop" ELSE "probe"
                 /\ UNCHANGED <<events, bulkStatus>>
    /\ UNCHANGED <<probeOf, bulkMode, bulkCap, video_files, cancelRequested>>

\* bulk_analysis after the loop (660-669)
BulkFinish ==
    /\ bulkMode = "bulk"
    /\ bulkPc = "probe"
    /\ bIndex > Len(video_files)
    /\ bulkStatus' = 200
    /\ stats' = WithPercentage(stats)
    /\ bulkPc' = "done"
    /\ UNCHANGED <<probeOf, bulkMode, bulkCap, video_files, bIndex, events, probed,
                   cancelRequested>>

\* generate_progress: the first yield (676)
ProgressStart ==
    /\ bulkPc = "idle"
    /\ bulkMode' = "progress"
    /\ events' = Append(events, StartingEvent)
    /\ bulkPc' = "scan"
    /\ UNCHANGED <<probeOf, bulkCap, video_files, bIndex, stats, bulkStatus, probed,
                   cancelRequested>>

\* the enumeration and the second yield (678-702)
ProgressScan ==
    /\ bulkMode = "progress"
    /\ bulkPc = "scan"
    /\ LET found == scan_media_files_recursive(fs, <<>>, NoneInt, DefaultMaxDepth)
       IN  /\ video_files' = found
           /\ events' = Append(events, ProgressEvent(Len(found), 0, <<>>))
           /\ stats' = InitStats(Len(found))
    /\ bulkPc' = "loop"
    /\ UNCHANGED <<probeOf, bulkMode, bulkCap, bIndex, bulkStatus, probed, cancelRequested>>

\* the yield at the head of an iteration (705-715)
ProgressYield ==
    /\ bulkMode = "progress"
    /\ bulkPc = "loop"
    /\ bIndex <= Len(video_files)
    /\ events' = Append(events,
            ProgressEvent(stats.total_files, bIndex, basename(video_files[bIndex])))
    /\ bulkPc' = "probe"
    /\ UNCHANGED <<probeOf, bulkMode, bulkCap, video_files, bIndex, stats, bulkStatus,
                   probed, cancelRequested>>

\* after the loop: the percentage and the last yield (772-786)
ProgressFinish ==
    /\ bulkMode = "progress"
    /\ bulkPc = "loop"
    /\ bIndex > Len(video_files)
    /\ stats' = WithPercentage(stats)
    /\ events' = Append(events, CompleteEvent(WithPercentage(stats)))
    /\ bulkPc' = "done"
    /\ UNCHANGED <<probeOf, bulkMode, bulkCap, video_files, bIndex, bulkStatus, probed,
                   cancelRequested>>

\* a cancellation is signalled from outside while an analysis runs; neither
\* loop reads any such signal
Cancel ==
    /\ bulkPc \in {"scan", "loop", "probe"}
    /\ ~cancelRequested
    /\ cancelRequested' = TRUE
    /\ UNCHANGED <<probeOf, bulkMode, bulkPc, bulkCap, video_files, bIndex, stats, events,
                   bulkStatus, probed>>

(***************************************************************************)
(* load_codec_config at startup, on any content of the store.  A JSON      *)
(* value is a scalar (number, true, false, null), a list of strings, a     *)
(* string, or an object; of an object the model keeps the key              *)
(* "problematic_codecs", and of that, when it is an object, the keys       *)
(* "audio" and "video".                                                    *)
(***************************************************************************)
s_audio == <<97, 117, 100, 105, 111>>
s_video == <<118, 105, 100, 101, 111>>
s_problematic_codecs ==
    <<112, 114, 111, 98, 108, 101, 109, 97, 116, 105, 99, 95, 99, 111, 100, 101, 99, 115>>

JsonScalar == [t |-> "scalar"]
JsonList(l) == [t |-> "list", items |-> l]
JsonString(text) == [t |-> "string", text |-> text]
JsonAbsent == [t |-> "absent"]
\* the value of "problematic_codecs" when it is an object
JsonCodecs(audio, video) == [t |-> "dict", audio |-> audio, video |-> video]
\* the top-level value when it is an object
JsonObject(pc) == [t |-> "dict", pc |-> pc]

\* key in v, for v a list or a string
In(key, v) == IF v.t = "list" THEN key \in Elems(v.items) ELSE IsInfix(key, v.text)

\* the lines 41-48 on a parsed value: the configuration returned, or the
\* exception that leaves the function (a TypeError, which 53 does not catch)
Returned(config) == [raised |-> FALSE, config |-> config]
Raised == [raised |-> TRUE, config |-> default_config]
EnsureKeys(config) ==
    IF config.t = "scalar" THEN Raised                 \* 42: argument is not iterable
    ELSE IF config.t # "dict" THEN Raised              \* 43 or 44: str key on a list or str
    ELSE LET pc == IF config.pc.t = "absent"
                   THEN JsonCodecs(default_config.audio, default_config.video)
                   ELSE config.pc
         IN  IF pc.t = "scalar" THEN Raised            \* 44: argument is not iterable
             ELSE IF pc.t = "dict"
             THEN Returned(MkConfig(
                    IF pc.audio.kind = "absent" THEN default_config.audio ELSE pc.audio,
                    IF pc.video.kind = "absent" THEN default_config.video ELSE pc.video))
             ELSE IF ~In(s_audio, pc) \/ ~In(s_video, pc)
             THEN Raised                               \* 45 or 47: item assignment
             ELSE Returned([pc |-> "other", audio |-> AbsentKey, video |-> AbsentKey])

MissingStore == [kind |-> "missing", value |-> JsonScalar]
UnreadableStore == [kind |-> "unreadable", value |-> JsonScalar]
UndecodableStore == [kind |-> "undecodable", value |-> JsonScalar]
BadJsonStore == [kind |-> "badjson", value |-> JsonScalar]
JsonStore(value) == [kind |-> "json", value |-> value]

\* load_codec_config on the store as it is found
LoadStore(st) ==
    IF st.kind = "missing" THEN Returned(default_config)          \* 50-51
    ELSE IF st.kind = "unreadable" THEN Returned(default_config)  \* IOError, 53-55
    ELSE IF st.kind = "badjson" THEN Returned(default_config)     \* JSONDecodeError, 53-55
    ELSE IF st.kind = "undecodable" THEN Raised                   \* UnicodeDecodeError
    ELSE EnsureKeys(st.value)

\* the stores tried
StoredLists == SeqsUpTo({s_dts, s_DTS_HD, s_hevc}, MaxCodecList)
StoredKeys == {AbsentKey, OtherKey} \cup {ListKey(l) : l \in StoredLists}
StoredValues ==
    {JsonScalar, JsonList(<<>>), JsonList(<<s_problematic_codecs>>), JsonString(s_aac),
     JsonString(s_problematic_codecs)}
    \cup {JsonObject(pc) : pc \in {JsonAbsent, JsonScalar, JsonList(<<>>), JsonList(<<s_audio>>),
                                   JsonList(<<s_audio, s_video>>), JsonString(s_audio),
                                   JsonString(s_audio \o s_video)}}
    \cup {JsonObject(JsonCodecs(a, v)) : a \in StoredKeys, v \in StoredKeys}
StoreContents ==
    {MissingStore, UnreadableStore, UndecodableStore, BadJsonStore}
    \cup {JsonStore(v) : v \in StoredValues}

LoadIdle ==
    /\ store = MissingStore
    /\ startup = "running"

\* the module is imported: CODEC_CONFIG = load_codec_config() (97).  An
\* exception that leaves the call ends the import, and with it the process.
Startup ==
    /\ startup = "pending"
    /\ \E saveOk \in BOOLEAN :
        store' = IF store.kind = "missing" /\ saveOk
                 THEN JsonStore(JsonObject(JsonCodecs(default_config.audio, default_config.video)))
                 ELSE store
    /\ IF LoadStore(store).raised
       THEN /\ startup' = "crashed"
            /\ UNCHANGED CODEC_CONFIG
       ELSE /\ startup' = "running"
            /\ CODEC_CONFIG' = LoadStore(store).config
    /\ UNCHANGED <<configFile, nUpdates, updStatus, new_config>>

(***************************************************************************)
(* Spec: one get_video_info call with update_config requests served by     *)
(* other threads of the server in between its steps.                       *)
(***************************************************************************)
Init == ConfigInit /\ GviIdle /\ FnIdle /\ PathIdle /\ FsIdle /\ BulkIdle /\ LoadIdle

Next ==
    \/ GviStart /\ UNCHANGED <<configVars, fnVars, pathVars, fsVars, bulkVars, loadVars>>
    \/ GviStream /\ UNCHANGED <<configVars, fnVars, pathVars, fsVars, bulkVars, loadVars>>
    \/ GviVerdict /\ UNCHANGED <<configVars, fnVars, pathVars, fsVars, bulkVars, loadVars>>
    \/ ConcurrentUpdateConfig /\ UNCHANGED <<gviVars, fnVars, pathVars, fsVars, bulkVars, loadVars>>

vars == <<configVars, fnVars, gviVars, pathVars, fsVars, bulkVars, loadVars>>

Spec == Init /\ [][Next]_vars

(***************************************************************************)
(* SpecCodec: the two membership helpers called on their own.              *)
(***************************************************************************)
InitCodec ==
    /\ CODEC_CONFIG = default_config /\ configFile = NoFile
    /\ nUpdates = 0 /\ updStatus = 0 /\ new_config = NoRequest
    /\ GviIdle /\ FnArgs /\ PathIdle /\ FsIdle /\ BulkIdle /\ LoadIdle

NextCodec ==
    \/ CallIsAudioProblematic /\ UNCHANGED <<configVars, gviVars, pathVars, fsVars, bulkVars, loadVars>>
    \/ CallIsVideoProblematic /\ UNCHANGED <<configVars, gviVars, pathVars, fsVars, bulkVars, loadVars>>

SpecCodec == InitCodec /\ [][NextCodec]_vars

(***************************************************************************)
(* SpecPath: one browse or video-info request.                             *)
(***************************************************************************)
ConfigFixed ==
    /\ CODEC_CONFIG = default_config /\ configFile = FileWith(default_config)
    /\ nUpdates = 0 /\ updStatus = 0 /\ new_config = NoRequest

InitPath == ConfigFixed /\ GviIdle /\ FnIdle /\ PathIdle /\ FsIdle /\ BulkIdle /\ LoadIdle

NextPath ==
    \/ BrowseRequest /\ UNCHANGED <<configVars, fnVars, gviVars, fsVars, bulkVars, loadVars>>
    \/ VideoInfoRequest /\ UNCHANGED <<configVars, fnVars, gviVars, fsVars, bulkVars, loadVars>>
    \/ SecurityCheck /\ UNCHANGED <<configVars, fnVars, gviVars, fsVars, bulkVars, loadVars>>
    \/ ExistsCheck /\ UNCHANGED <<configVars, fnVars, gviVars, fsVars, bulkVars, loadVars>>
    \/ BrowseScan /\ UNCHANGED <<configVars, fnVars, gviVars, fsVars, bulkVars, loadVars>>
    \/ VideoInfoProbe /\ UNCHANGED <<configVars, fnVars, gviVars, fsVars, bulkVars, loadVars>>

SpecPath == InitPath /\ [][NextPath]_vars

(***************************************************************************)
(* SpecFs: scan_directory and scan_media_files_recursive called on a tree. *)
(***************************************************************************)
InitFs ==
    /\ ConfigFixed /\ GviIdle /\ FnIdle /\ PathIdle /\ BulkIdle /\ LoadIdle
    /\ fs \in AllTrees
    /\ fsCall = NoFsCall
    /\ items = <<>>
    /\ enumerated = <<>>

NextFs ==
    \/ CallScanDirectory /\ UNCHANGED <<configVars, fnVars, gviVars, pathVars, bulkVars, loadVars>>
    \/ CallScanMediaFiles /\ UNCHANGED <<configVars, fnVars, gviVars, pathVars, bulkVars, loadVars>>

SpecFs == InitFs /\ [][NextFs]_vars

(***************************************************************************)
(* SpecBulk: one bulk analysis, in either mode, on a library.              *)
(***************************************************************************)
InitBulk ==
    /\ CODEC_CONFIG = cfgB /\ configFile = FileWith(cfgB)
    /\ nUpdates = 0 /\ updStatus = 0 /\ new_config = NoRequest
    /\ GviIdle /\ FnIdle /\ PathIdle /\ LoadIdle
    /\ fs \in BulkTrees
    /\ fsCall = NoFsCall /\ items = <<>> /\ enumerated = <<>>
    /\ probeOf \in [VideoPaths(fs) -> BulkProbes]
    /\ bulkMode = "none" /\ bulkPc = "idle" /\ bulkCap = NoneInt
    /\ video_files = <<>> /\ bIndex = 1 /\ stats = InitStats(0)
    /\ events = <<>> /\ bulkStatus = 0 /\ probed = <<>>
    /\ cancelRequested = FALSE

NextBulk ==
    \/ BulkRequest /\ UNCHANGED <<configVars, fnVars, gviVars, pathVars, fsVars, loadVars>>
    \/ BulkFile /\ UNCHANGED <<configVars, fnVars, gviVars, pathVars, fsVars, loadVars>>
    \/ BulkFinish /\ UNCHANGED <<configVars, fnVars, gviVars, pathVars, fsVars, loadVars>>
    \/ ProgressStart /\ UNCHANGED <<configVars, fnVars, gviVars, pathVars, fsVars, loadVars>>
    \/ ProgressScan /\ UNCHANGED <<configVars, fnVars, gviVars, pathVars, fsVars, loadVars>>
    \/ ProgressYield /\ UNCHANGED <<configVars, fnVars, gviVars, pathVars, fsVars, loadVars>>
    \/ ProgressFinish /\ UNCHANGED <<configVars, fnVars, gviVars, pathVars, fsVars, loadVars>>
    \/ Cancel /\ UNCHANGED <<configVars, fnVars, gviVars, pathVars, fsVars, loadVars>>

SpecBulk == InitBulk /\ [][NextBulk]_vars

(***************************************************************************)
(* SpecLoad: the process starts on a configuration store of any content.   *)
(* Until the load returns CODEC_CONFIG is not bound; default_config stands *)
(* for the unbound name.                                                   *)
(***************************************************************************)
InitLoad ==
    /\ CODEC_CONFIG = default_config /\ configFile = NoFile
    /\ nUpdates = 0 /\ updStatus = 0 /\ new_config = NoRequest
    /\ GviIdle /\ FnIdle /\ PathIdle /\ FsIdle /\ BulkIdle
    /\ store \in StoreContents
    /\ startup = "pending"

NextLoad ==
    Startup /\ UNCHANGED <<fnVars, gviVars, pathVars, fsVars, bulkVars>>

SpecLoad == InitLoad /\ [][NextLoad]_vars

(***************************************************************************)
(* SpecConfig: update requests of any body, served one after another.      *)
(***************************************************************************)
StartFiles ==
    {NoFile}
    \cup {FileWith(c) : c \in {default_config, cfgA, cfgB, cfgC,
                                MkConfig(ListKey(<<s_truehd>>), AbsentKey),
                                MkConfig(AbsentKey, AbsentKey)}}

InitConfig ==
    /\ \E file \in StartFiles, saveOk \in BOOLEAN :
        /\ CODEC_CONFIG = load_codec_config(file)
        /\ configFile = FileAfterLoad(file, saveOk)
    /\ nUpdates = 0 /\ updStatus = 0 /\ new_config = NoRequest
    /\ GviIdle /\ FnIdle /\ PathIdle /\ FsIdle /\ BulkIdle /\ LoadIdle

NextConfig ==
    UpdateConfig /\ UNCHANGED <<fnVars, gviVars, pathVars, fsVars, bulkVars, loadVars>>

SpecConfig == InitConfig /\ [][NextConfig]_vars

(***************************************************************************)
(* The claims.                                                             *)
(***************************************************************************)
\* two names equal up to the case of their ASCII letters
SameLetter(x, y) ==
    \/ x = y
    \/ x \in 65..90 /\ y = x + 32
    \/ y \in 65..90 /\ x = y + 32
EqIgnoreCase(a, b) == Len(a) = Len(b) /\ \A i \in 1..Len(a) : SameLetter(a[i], b[i])

\* os.path.normpath of an absolute path: "." dropped, ".." removes the segment
\* before it (and is dropped at the root)
RECURSIVE NormFrom(_, _, _)
NormFrom(acc, segs, i) ==
    IF i > Len(segs) THEN acc
    ELSE IF segs[i] = "." THEN NormFrom(acc, segs, i + 1)
    ELSE IF segs[i] = ".."
    THEN NormFrom(IF acc = <<>> THEN acc ELSE SubSeq(acc, 1, Len(acc) - 1), segs, i + 1)
    ELSE NormFrom(Append(acc, segs[i]), segs, i + 1)
IsPrefix(a, b) == Len(a) <= Len(b) /\ SubSeq(b, 1, Len(a)) = a
HasTraversal(path) == \E i \in 1..Len(path.segs) : path.segs[i] = ".."
EscapesRoot(path) ==
    /\ path.abs
    /\ HasTraversal(path)
    /\ ~IsPrefix(MEDIA_ROOT.segs, NormFrom(<<>>, path.segs, 1))

\* C1: a request whose path has ".." segments and resolves outside the media
\* root performs no filesystem or probe operation and is answered 400.
C1_EscapeRejected ==
    (reqKind # "none" /\ EscapesRoot(fullPath)) =>
        /\ fsLog = <<>>
        /\ pcReq = "done" => respStatus = 400

\* C2: in every verdict get_video_info returns, needs_remux is true exactly when
\* primary_audio_problematic or video_problematic is.
C2_NeedsRemuxIsOr ==
    gviRet = "info" =>
        LET c == video_info.compatibility
        IN  /\ c.present
            /\ c.needs_remux <=> (c.primary_audio_problematic \/ c.video_problematic)

\* C2's case: no audio track at all, a problematic video stream, and the file needs a remux
C2_Witness ==
    /\ gviRet = "info"
    /\ video_info.compatibility.total_audio_tracks = 0
    /\ video_info.compatibility.video_problematic
    /\ ~video_info.compatibility.primary_audio_problematic
    /\ video_info.compatibility.needs_remux

\* the positions, among the files processed so far, of those get_video_info
\* gave a dict for, and their verdicts
Analysed == {i \in 1..Len(probed) : InfoUnder(probeOf[probed[i]], CODEC_CONFIG).some}
VerdictOf(i) == InfoUnder(probeOf[probed[i]], CODEC_CONFIG).v.compatibility
Scanned == bulkPc \in {"loop", "probe", "done"}

\* C3: once the files are enumerated total_files is their number, whatever is
\* processed afterwards; compatible_files + problematic_files never exceeds it
\* and reaches it at the end exactly when get_video_info gave a dict for every
\* enumerated file; every counter counts files that gave a dict only, so a file
\* whose probe failed moves none of them.
C3_CountersCountAnalysedFiles ==
    Scanned =>
        /\ stats.total_files = Len(video_files)
        /\ video_files = scan_media_files_recursive(fs, <<>>, bulkCap, DefaultMaxDepth)
        /\ stats.compatible_files + stats.problematic_files <= stats.total_files
        /\ stats.compatible_files = Cardinality({i \in Analysed : ~VerdictOf(i).needs_remux})
        /\ stats.problematic_files = Cardinality({i \in Analysed : VerdictOf(i).needs_remux})
        /\ stats.audio_issues = Cardinality({i \in Analysed :
                VerdictOf(i).needs_remux /\ VerdictOf(i).primary_audio_problematic})
        /\ stats.video_issues = Cardinality({i \in Analysed :
                VerdictOf(i).needs_remux /\ VerdictOf(i).video_problematic})
        /\ stats.both_issues = Cardinality({i \in Analysed :
                /\ VerdictOf(i).needs_remux
                /\ VerdictOf(i).primary_audio_problematic
                /\ VerdictOf(i).video_problematic})
        /\ Len(stats.problematic_files_list) = stats.problematic_files
        /\ \A c \in DOMAIN stats.codec_breakdown.audio :
                stats.codec_breakdown.audio[c] = Cardinality({i \in Analysed :
                    /\ VerdictOf(i).primary_audio_codec.some
                    /\ lower(VerdictOf(i).primary_audio_codec.v) = c})
        /\ \A c \in DOMAIN stats.codec_breakdown.video :
                stats.codec_breakdown.video[c] = Cardinality({i \in Analysed :
                    /\ VerdictOf(i).video_codec.some
                    /\ lower(VerdictOf(i).video_codec.v) = c})
        /\ bulkPc = "done" =>
            (stats.compatible_files + stats.problematic_files = stats.total_files
                <=> \A k \in 1..Len(video_files) :
                        InfoUnder(probeOf[video_files[k]], CODEC_CONFIG).some)

\* C3's case: three files were enumerated and processed to the end, ffprobe
\* failed on the second, the other two are counted, one on each side
C3_Witness ==
    /\ bulkMode = "bulk"
    /\ bulkPc = "done"
    /\ bulkStatus = 200
    /\ stats.total_files = 3
    /\ Len(probed) = 3
    /\ probeOf[probed[2]].outcome # "ok"
    /\ stats.compatible_files = 1
    /\ stats.problematic_files = 1

\* the files generate_progress enumerates, and the event that reports file k
Enumeration == scan_media_files_recursive(fs, <<>>, NoneInt, DefaultMaxDepth)
ReportsFile(e, k) ==
    /\ e.status = "progress"
    /\ e.total_files = Len(Enumeration)
    /\ e.current_file = k
    /\ e.current_filename = basename(Enumeration[k])
ReportsTotal(e) ==
    /\ e.status = "progress"
    /\ e.total_files = Len(Enumeration)
    /\ e.current_file = 0
IsTerminal(e) == e.status \in {"complete", "error"}

\* C4 as stated: a finished stream is 'starting', the total, one 'progress' per
\* enumerated file 1..N in enumeration order, then one terminal event, 'complete'
\* with the statistics or 'error'.
C4_AllFilesThenTerminal ==
    (bulkMode = "progress" /\ bulkPc = "done") =>
        LET N == Len(Enumeration)
        IN  /\ Len(events) = N + 3
            /\ events[1].status = "starting"
            /\ ReportsTotal(events[2])
            /\ \A k \in 1..N : ReportsFile(events[k + 2], k)
            /\ IsTerminal(events[N + 3])
            /\ events[N + 3].status = "complete" => events[N + 3].stats = stats

\* C4, amended: the stream is 'starting', the total, then 'progress' events for
\* files 1, 2, ... in enumeration order, ended by exactly one terminal event after
\* which nothing is emitted: 'complete' with the statistics after all N files, or
\* 'error' right after the report of the file whose analysis failed, which may be
\* any of the N.
C4_ProgressPrefixThenTerminal ==
    bulkMode = "progress" =>
        LET N == Len(Enumeration)
            n == Len(events)
        IN  /\ n >= 1
            /\ n <= N + 3
            /\ events[1].status = "starting"
            /\ n >= 2 => ReportsTotal(events[2])
            /\ \A i \in 1..n : IsTerminal(events[i]) <=> (bulkPc = "done" /\ i = n)
            /\ \A i \in 3..n : ~IsTerminal(events[i]) => ReportsFile(events[i], i - 2)
            /\ bulkPc = "done" =>
                \/ /\ events[n].status = "complete"
                   /\ n = N + 3
                   /\ events[n].stats = stats
                   /\ events[n].total_files = N
                   /\ stats.compatibility_percentage.some
                \/ /\ events[n].status = "error"
                   /\ n >= 4
                   /\ probeOf[Enumeration[n - 3]].outcome # "ok"

\* C4's case: three files are enumerated, the analysis of the first fails and
\* the stream ends with 'error' after one file was reported
C4_Witness ==
    /\ bulkMode = "progress"
    /\ bulkPc = "done"
    /\ Len(Enumeration) = 3
    /\ Len(events) = 4
    /\ events[4].status = "error"
    /\ ReportsFile(events[3], 1)

\* C5: the flags and the verdict of one get_video_info call are those of the
\* configuration current when the call started, whatever update_config does meanwhile.
C5_ClassifiedAgainstStartConfig ==
    gviRet = "info" => video_info = InfoUnder(probe, cfgAtStart).v

\* C6: once a cancellation is signalled, get_video_info is called on no
\* further file.
C6_NoProbeAfterCancel == [][cancelRequested => probed' = probed]_vars

\* the position of the primary track in a non-empty list: the first default one, else 1
PrimaryIndex(tracks) ==
    IF \E k \in 1..Len(tracks) : tracks[k].default # 0
    THEN CHOOSE k \in 1..Len(tracks) :
            /\ tracks[k].default # 0
            /\ \A j \in 1..(k - 1) : tracks[j].default = 0
    ELSE 1

\* C7: the primary track is the first default-flagged audio track in probe order,
\* else the first track; with no audio track there is none, the verdict's
\* primary_audio_problematic is false and its primary_audio_codec is absent.
C7_PrimaryAudioTrack ==
    gviRet = "info" =>
        LET tracks == video_info.audio_tracks
            c == video_info.compatibility
        IN  /\ \A k \in 1..Len(tracks) :
                /\ probe.streams[tracks[k].index + 1].codec_type = "audio"
                /\ tracks[k].default = probe.streams[tracks[k].index + 1].default
                /\ \A j \in 1..(k - 1) : tracks[j].index < tracks[k].index
            /\ Len(tracks) = Cardinality({i \in 1..Len(probe.streams) :
                                            probe.streams[i].codec_type = "audio"})
            /\ IF tracks = <<>>
               THEN /\ ~get_primary_audio_track(tracks).some
                    /\ ~c.primary_audio_problematic
                    /\ ~c.primary_audio_codec.some
               ELSE /\ get_primary_audio_track(tracks) = Some(tracks[PrimaryIndex(tracks)])
                    /\ c.primary_audio_codec = Some(tracks[PrimaryIndex(tracks)].codec)
                    /\ c.primary_audio_problematic = tracks[PrimaryIndex(tracks)].is_problematic

\* C7's case: two default-flagged tracks after an unflagged one; the first
\* flagged one is primary
C7_Witness ==
    /\ gviRet = "info"
    /\ Len(video_info.audio_tracks) = 3
    /\ video_info.audio_tracks[1].default = 0
    /\ video_info.audio_tracks[2].default = 1
    /\ video_info.audio_tracks[3].default = 1
    /\ video_info.audio_tracks[2].codec # video_info.audio_tracks[3].codec
    /\ video_info.audio_tracks[2].codec # video_info.audio_tracks[1].codec
    /\ video_info.compatibility.primary_audio_codec = Some(video_info.audio_tracks[2].codec)

\* C8: a codec is flagged exactly when its name equals, up to case, an entry of
\* the configured list of its kind; substrings and superstrings do not match.
C8_ExactCaseInsensitiveMatch ==
    /\ fnCall.fn = "is_audio_problematic" =>
        (fnRes <=> \E c \in Elems(fnCall.config.audio.items) : EqIgnoreCase(c, fnCall.codec))
    /\ fnCall.fn = "is_video_problematic" =>
        (fnRes <=> \E c \in Elems(fnCall.config.video.items) : EqIgnoreCase(c, fnCall.codec))

\* C8's case: "DTS" is configured with "dt"; the probed "dts" is flagged
C8_Witness ==
    /\ fnCall.fn = "is_audio_problematic"
    /\ fnCall.codec = s_dts
    /\ fnCall.config.audio.items = <<s_dt, s_DTS>>
    /\ fnRes
\* C9: a listing of scan_directory has no entry whose name starts with a dot,
\* none named "System Volume Information", and its names ascend.
C9_ListingCleanAndSorted ==
    fsCall.fn = "scan_directory" =>
        /\ \A i \in 1..Len(items) :
            /\ items[i].name[1] # 46
            /\ items[i].name # n_SVI
        /\ \A i \in 1..(Len(items) - 1) : StrLess(items[i].name, items[i + 1].name)

Min(a, b) == IF a < b THEN a ELSE b

\* C10: with a cap given, the enumeration returns at most that many paths (none
\* for a cap below one) and exactly the first min(cap, n) paths of the uncapped
\* enumeration of the same tree.
C10_CapIsPrefix ==
    (fsCall.fn = "scan_media_files_recursive" /\ ~fsCall.max_files.none) =>
        LET uncapped == scan_media_files_recursive(fs, <<>>, NoneInt, DefaultMaxDepth)
            cap == IF fsCall.max_files.n < 0 THEN 0 ELSE fsCall.max_files.n
        IN  /\ Len(enumerated) <= cap
            /\ enumerated = SubSeq(uncapped, 1, Min(cap, Len(uncapped)))

\* C11: no path the enumeration returns has a component below the root, directory
\* or file name, that starts with a dot or is "System Volume Information", and
\* none lies in a directory more than 10 levels deep, the root being level 1.
C11_EnumerationExcludesAndBounds ==
    fsCall.fn = "scan_media_files_recursive" =>
        \A k \in 1..Len(enumerated) :
            /\ \A j \in 1..Len(enumerated[k]) :
                /\ ~StartsWithDot(enumerated[k][j])
                /\ enumerated[k][j] # n_SVI
            /\ Len(enumerated[k]) <= DefaultMaxDepth

\* C12: access failures are swallowed below the top level only: a folder entry
\* that cannot be read is listed with a count of zero, while a listing whose own
\* directory cannot be read is a failure, which the caller can tell from the
\* listing of an empty directory.
C12_OnlyEntryFailuresSwallowed ==
    fsCall.fn = "scan_directory" =>
        IF ListdirRaises(fs, fsCall.path)
        THEN items # scan_directory({}, <<>>)
        ELSE \A name \in listdir(fs, fsCall.path) :
                (/\ isdir(fs, Append(fsCall.path, name))
                 /\ ~StartsWithDot(name) /\ name # n_SVI
                 /\ ListdirRaises(fs, Append(fsCall.path, name)))
                => \E i \in 1..Len(items) :
                        items[i] = [type |-> "folder", name |-> name, video_count |-> 0]

\* C13: whatever the store holds, the load at startup returns, and the
\* configuration it returns has problematic_codecs.audio and
\* problematic_codecs.video.
C13_LoadNeverFails ==
    startup # "pending" =>
        /\ startup = "running"
        /\ CODEC_CONFIG.pc = "dict"
        /\ CODEC_CONFIG.audio.kind # "absent"
        /\ CODEC_CONFIG.video.kind # "absent"

\* C14: when ffprobe's output parsed, get_video_info returns a dict with the
\* verdict and every audio track, a malformed duration leaving only that field
\* out; None is returned only for a non-zero exit, a timeout or output that does
\* not parse.
C14_MalformedFieldDegrades ==
    gviPc = "done" =>
        IF probe.outcome = "ok"
        THEN /\ gviRet = "info"
             /\ video_info.compatibility.present
             /\ Len(video_info.audio_tracks) =
                    Cardinality({i \in 1..Len(probe.streams) :
                                    probe.streams[i].codec_type = "audio"})
        ELSE gviRet = "None"

\* get_video_info gives a dict for the file and its verdict is needs_remux
NeedsRemuxFile(file_path) ==
    LET result == InfoUnder(probeOf[file_path], CODEC_CONFIG)
    IN  result.some /\ result.v.compatibility.needs_remux

\* C15: after every processed file both_issues is at most audio_issues and at
\* most video_issues, audio_issues + video_issues - both_issues is
\* problematic_files, and the problematic-files list has one summary, in
\* processing order, for exactly the processed files whose verdict is needs_remux.
C15_IssueCountersConsistent ==
    Scanned =>
        /\ stats.both_issues <= stats.audio_issues
        /\ stats.both_issues <= stats.video_issues
        /\ stats.audio_issues + stats.video_issues - stats.both_issues = stats.problematic_files
        /\ Len(stats.problematic_files_list) = stats.problematic_files
        /\ [i \in 1..Len(stats.problematic_files_list) |-> stats.problematic_files_list[i].path]
                = SelectSeq(probed, NeedsRemuxFile)

\* C15's case: three files are processed, one with an audio issue, one with a
\* video issue and one with both
C15_Witness ==
    /\ bulkPc = "done"
    /\ Len(probed) = 3
    /\ stats.problematic_files = 3
    /\ stats.audio_issues = 2
    /\ stats.video_issues = 2
    /\ stats.both_issues = 1

\* C16: a served update request replaces the in-memory configuration, by the
\* submitted value, only when it passed validation and the save succeeded (the
\* store then holds the submitted value and the answer is 200); a request that
\* is rejected or whose save fails leaves the in-memory configuration as it was.
C16_ReplacedOnlyOnSavedUpdate ==
    [][nUpdates' # nUpdates =>
        IF ValidationStatus(new_config') = 0 /\ updStatus' = 200
        THEN /\ CODEC_CONFIG' = new_config'.cfg
             /\ configFile' = FileWith(new_config'.cfg)
        ELSE /\ CODEC_CONFIG' = CODEC_CONFIG
             /\ configFile' = configFile
             /\ updStatus' \in {400, 500}
             /\ updStatus' = 500 <=> ValidationStatus(new_config') = 0]_vars

\* C16's case: after an update that was saved, a valid request with another
\* configuration was answered 500 and the saved one is still in memory
C16_Witness ==
    /\ nUpdates = 2
    /\ updStatus = 500
    /\ ValidationStatus(new_config) = 0
    /\ CODEC_CONFIG = cfgA
    /\ configFile = FileWith(cfgA)
    /\ new_config.cfg = cfgB

\* the statistics of a library analysed file by file without a cap, in
\* enumeration order
RECURSIVE AnalyzeFrom(_, _)
AnalyzeFrom(st, i) ==
    IF i > Len(Enumeration) THEN st
    ELSE AnalyzeFrom(AnalyzeFile(st, Enumeration[i],
                                 InfoUnder(probeOf[Enumeration[i]], CODEC_CONFIG)), i + 1)
UncappedStats == WithPercentage(AnalyzeFrom(InitStats(Len(Enumeration)), 1))

====
